---- MODULE Spec2Model ----
(***************************************************************************)
(* TimeScaleApi (src/unnamed/part_000): the facade over the chart model's  *)
(* time scale.  Two specifications share the variables:                     *)
(*   Spec        the facade's subscriptions, upstream events, destroy and   *)
(*               setVisibleLogicalRange;                                    *)
(*   SearchSpec  timeToCoordinateRounded, one statement block per step,     *)
(*               over every point table and visible strict range.           *)
(***************************************************************************)
EXTENDS Integers, Sequences, FiniteSets, TLC

\* Highest logical index of the point table (indices 0..MaxIndex).
MaxIndex == 3
\* Most registrations the facade's three delegates hold together.
MaxListeners == 3

\* JavaScript null.
Null == [null |-> TRUE]

Indices == 0..MaxIndex
\* Sample keys of IHorzScaleBehavior.key: the keys of the spec's examples.
Keys == {1, 2, 5, 7, 9, 10}

Abs(x) == IF x < 0 THEN -x ELSE x
Min(a, b) == IF a <= b THEN a ELSE b
Max(a, b) == IF a >= b THEN a ELSE b

VARIABLES
    points,               \* TimeScale._points: index -> time point or Null
    visibleStrictRange,   \* TimeScale.visibleStrictRange(): Null or [left, right]
    call,                 \* the running timeToCoordinateRounded call
    visibleBarsChanged,   \* upstream Delegate of TimeScale
    logicalRangeChanged,  \* upstream Delegate of TimeScale
    sizeChanged,          \* upstream Delegate of TimeAxisWidget
    timeRangeChanged_,    \* this._timeRangeChanged
    logicalRangeChanged_, \* this._logicalRangeChanged
    sizeChanged_,         \* this._sizeChanged
    destroyed,            \* destroy() has run
    visibleTimeRange,     \* TimeScale.visibleTimeRange()
    visibleLogicalRange,  \* TimeScale.visibleLogicalRange()
    targetLogicalRange,   \* last range given to ChartModel.setTargetLogicalRange
    lastCall,             \* the operation that ran last, with its argument
    fault,                \* the error the last operation raised, or "none"
    invoked,              \* facade callbacks the last upstream fire invoked
    calls                 \* handler invocations of the last upstream fire

searchVars == <<points, visibleStrictRange, call>>
facadeVars == <<visibleBarsChanged, logicalRangeChanged, sizeChanged,
                timeRangeChanged_, logicalRangeChanged_, sizeChanged_,
                destroyed, visibleTimeRange, visibleLogicalRange,
                targetLogicalRange, lastCall, fault, invoked, calls>>
vars == <<points, visibleStrictRange, call,
          visibleBarsChanged, logicalRangeChanged, sizeChanged,
          timeRangeChanged_, logicalRangeChanged_, sizeChanged_,
          destroyed, visibleTimeRange, visibleLogicalRange,
          targetLogicalRange, lastCall, fault, invoked, calls>>

(***************************************************************************)
(* The time scale's read view.                                             *)
(***************************************************************************)

\* A time point whose key is k.
TimeScalePoint(k) == [time |-> k, originalTime |-> <<"item", k>>]

\* Keys of the present points strictly increase with the index.
StrictlyIncreasing(pts) ==
    \A i, j \in DOMAIN pts :
        (i < j /\ pts[i] # Null /\ pts[j] # Null) => pts[i].time < pts[j].time

PointTables ==
    {pts \in [Indices -> {Null} \cup {TimeScalePoint(k) : k \in Keys}] :
        StrictlyIncreasing(pts)}

\* A visible strict range may reach past the points (the code tests the
\* points at its boundaries for null).
StrictRanges ==
    {Null} \cup {[left |-> l, right |-> r] : l \in Indices, r \in Indices}

\* TimeScale.indexToTimeScalePoint: the point at index, Null off the table.
indexToTimeScalePoint(pts, index) ==
    IF index \in DOMAIN pts THEN pts[index] ELSE Null

BarSpacing == 6
FirstCoordinate == 3

\* TimeScale.indexToCoordinate: bars are BarSpacing pixels apart.
indexToCoordinate(index) == [coordinate |-> FirstCoordinate + index * BarSpacing]

\* TimeScale.timeToIndex(timePoint, false): the index of the point with
\* exactly this key, or Null.
timeToIndex(pts, timeKey) ==
    IF \E i \in DOMAIN pts : pts[i] # Null /\ pts[i].time = timeKey
    THEN [index |-> CHOOSE i \in DOMAIN pts : pts[i] # Null /\ pts[i].time = timeKey]
    ELSE Null

\* timeToCoordinate(time)
timeToCoordinate(pts, timeKey) ==
    LET timePointIndex == timeToIndex(pts, timeKey)
    IN  IF timePointIndex = Null THEN Null
        ELSE indexToCoordinate(timePointIndex.index)

(***************************************************************************)
(* timeToCoordinateRounded, as a step function on the call's record:       *)
(*   pc          "idle" | "loop" | "fwd" | "bwd" | "final" | "done"       *)
(*   timeKey     key of the converted time                                  *)
(*   left,right  the search window                                          *)
(*   mid         midpoint of the current iteration                          *)
(*   validIndex  cursor of the gap probe                                    *)
(*   result      the returned coordinate or Null                            *)
(*   site        the return statement taken                                 *)
(*   probed      indices the gap probe has read, in order                   *)
(*   passes      passes of the outer loop's body so far                     *)
(***************************************************************************)

IdleCall ==
    [pc |-> "idle", timeKey |-> 0, left |-> 0, right |-> 0, mid |-> 0,
     validIndex |-> 0, result |-> Null, site |-> "none", probed |-> <<>>,
     passes |-> 0]

Return(s, value, where) ==
    [s EXCEPT !.pc = "done", !.result = value, !.site = where]

\* let left = visibleRange.left(); let right = visibleRange.right();
EnterSearch(range, timeKey) ==
    [IdleCall EXCEPT !.pc = "loop", !.timeKey = timeKey,
                     !.left = range.left, !.right = range.right]

EnterCall_NoExactLookup(pts, range, timeKey) ==
    IF range = Null
    THEN Return([IdleCall EXCEPT !.timeKey = timeKey], Null, "norange")
    ELSE EnterSearch(range, timeKey)

\* The method's entry: the exact lookup, then the visible strict range.
EnterCall(pts, range, timeKey) ==
    LET timeToCoordinateResult == timeToCoordinate(pts, timeKey)
    IN  IF timeToCoordinateResult # Null
        THEN Return([IdleCall EXCEPT !.timeKey = timeKey], timeToCoordinateResult, "exact")
        ELSE IF range = Null
        THEN Return([IdleCall EXCEPT !.timeKey = timeKey], Null, "norange")
        ELSE EnterSearch(range, timeKey)

LoopStep_NoShrink(pts, s) ==
    IF ~(s.left <= s.right) THEN [s EXCEPT !.pc = "final"]
    ELSE
    LET mid == (s.left + s.right) \div 2
        currentPoint == indexToTimeScalePoint(pts, mid)
    IN  IF currentPoint = Null
        THEN [s EXCEPT !.pc = "fwd", !.mid = mid, !.validIndex = mid, !.probed = <<>>]
        ELSE
        LET currentKey == currentPoint.time
        IN  IF currentKey = s.timeKey
            THEN Return([s EXCEPT !.mid = mid], indexToCoordinate(mid), "hit")
            ELSE IF currentKey < s.timeKey
            THEN IF s.left = s.right - 1
                 THEN LET nextPoint == indexToTimeScalePoint(pts, s.right)
                      IN  IF nextPoint = Null
                          THEN Return([s EXCEPT !.mid = mid], indexToCoordinate(mid), "shortcutRightNull")
                          ELSE Return([s EXCEPT !.mid = mid],
                                      indexToCoordinate(
                                          IF Abs(currentKey - s.timeKey) <= Abs(nextPoint.time - s.timeKey)
                                          THEN mid ELSE s.right),
                                      "shortcutRight")
                 ELSE [s EXCEPT !.mid = mid, !.left = mid, !.passes = @ + 1]
            ELSE IF s.left = s.right - 1
                 THEN LET prevPoint == indexToTimeScalePoint(pts, s.left)
                      IN  IF prevPoint = Null
                          THEN Return([s EXCEPT !.mid = mid], indexToCoordinate(mid), "shortcutLeftNull")
                          ELSE Return([s EXCEPT !.mid = mid],
                                      indexToCoordinate(
                                          IF Abs(prevPoint.time - s.timeKey) <= Abs(currentKey - s.timeKey)
                                          THEN s.left ELSE mid),
                                      "shortcutLeft")
                 ELSE [s EXCEPT !.mid = mid, !.right = mid - 1, !.passes = @ + 1]

\* One pass of `while (left <= right)`: the loop test and the loop body up
\* to its return, its entry into the gap probe, or the next window.
LoopStep(pts, s) ==
    IF ~(s.left <= s.right) THEN [s EXCEPT !.pc = "final"]
    ELSE
    LET mid == (s.left + s.right) \div 2
        currentPoint == indexToTimeScalePoint(pts, mid)
    IN  IF currentPoint = Null
        THEN [s EXCEPT !.pc = "fwd", !.mid = mid, !.validIndex = mid, !.probed = <<>>]
        ELSE
        LET currentKey == currentPoint.time
        IN  IF currentKey = s.timeKey
            THEN Return([s EXCEPT !.mid = mid], indexToCoordinate(mid), "hit")
            ELSE IF currentKey < s.timeKey
            THEN IF s.left = s.right - 1
                 THEN LET nextPoint == indexToTimeScalePoint(pts, s.right)
                      IN  IF nextPoint = Null
                          THEN Return([s EXCEPT !.mid = mid], indexToCoordinate(mid), "shortcutRightNull")
                          ELSE Return([s EXCEPT !.mid = mid],
                                      indexToCoordinate(
                                          IF Abs(currentKey - s.timeKey) <= Abs(nextPoint.time - s.timeKey)
                                          THEN mid ELSE s.right),
                                      "shortcutRight")
                 ELSE [s EXCEPT !.mid = mid, !.left = mid + 1, !.passes = @ + 1]
            ELSE IF s.left = s.right - 1
                 THEN LET prevPoint == indexToTimeScalePoint(pts, s.left)
                      IN  IF prevPoint = Null
                          THEN Return([s EXCEPT !.mid = mid], indexToCoordinate(mid), "shortcutLeftNull")
                          ELSE Return([s EXCEPT !.mid = mid],
                                      indexToCoordinate(
                                          IF Abs(prevPoint.time - s.timeKey) <= Abs(currentKey - s.timeKey)
                                          THEN s.left ELSE mid),
                                      "shortcutLeft")
                 ELSE [s EXCEPT !.mid = mid, !.right = mid - 1, !.passes = @ + 1]

\* One pass of `while (validIndex <= right)`; on exit, validIndex = mid - 1.
ForwardProbeStep(pts, s) ==
    IF s.validIndex <= s.right
    THEN LET nextPoint == indexToTimeScalePoint(pts, s.validIndex)
         IN  IF nextPoint # Null
             THEN Return([s EXCEPT !.probed = Append(@, s.validIndex)],
                         indexToCoordinate(s.validIndex), "probeForward")
             ELSE [s EXCEPT !.probed = Append(@, s.validIndex),
                            !.validIndex = s.validIndex + 1]
    ELSE [s EXCEPT !.pc = "bwd", !.validIndex = s.mid - 1]

\* One pass of `while (validIndex >= left)`; on exit, return null.
BackwardProbeStep(pts, s) ==
    IF s.validIndex >= s.left
    THEN LET prevPoint == indexToTimeScalePoint(pts, s.validIndex)
         IN  IF prevPoint # Null
             THEN Return([s EXCEPT !.probed = Append(@, s.validIndex)],
                         indexToCoordinate(s.validIndex), "probeBackward")
             ELSE [s EXCEPT !.probed = Append(@, s.validIndex),
                            !.validIndex = s.validIndex - 1]
    ELSE Return(s, Null, "probeNone")

FinalBoundary_NoAbs(pts, s) ==
    LET leftPoint == indexToTimeScalePoint(pts, s.left)
        rightPoint == indexToTimeScalePoint(pts, s.right)
    IN  IF leftPoint = Null /\ rightPoint = Null THEN Return(s, Null, "finalNone")
        ELSE IF leftPoint = Null THEN Return(s, indexToCoordinate(s.right), "finalRightOnly")
        ELSE IF rightPoint = Null THEN Return(s, indexToCoordinate(s.left), "finalLeftOnly")
        ELSE
        LET leftDiff == leftPoint.time - s.timeKey
            rightDiff == rightPoint.time - s.timeKey
        IN  Return(s, indexToCoordinate(IF leftDiff <= rightDiff THEN s.left ELSE s.right),
                   "finalBoth")

FinalBoundary_TieToRight(pts, s) ==
    LET leftPoint == indexToTimeScalePoint(pts, s.left)
        rightPoint == indexToTimeScalePoint(pts, s.right)
    IN  IF leftPoint = Null /\ rightPoint = Null THEN Return(s, Null, "finalNone")
        ELSE IF leftPoint = Null THEN Return(s, indexToCoordinate(s.right), "finalRightOnly")
        ELSE IF rightPoint = Null THEN Return(s, indexToCoordinate(s.left), "finalLeftOnly")
        ELSE
        LET leftDiff == Abs(leftPoint.time - s.timeKey)
            rightDiff == Abs(rightPoint.time - s.timeKey)
        IN  Return(s, indexToCoordinate(IF leftDiff < rightDiff THEN s.left ELSE s.right),
                   "finalBoth")

\* After the loop: the closer of the two final boundaries.
FinalBoundary(pts, s) ==
    LET leftPoint == indexToTimeScalePoint(pts, s.left)
        rightPoint == indexToTimeScalePoint(pts, s.right)
    IN  IF leftPoint = Null /\ rightPoint = Null THEN Return(s, Null, "finalNone")
        ELSE IF leftPoint = Null THEN Return(s, indexToCoordinate(s.right), "finalRightOnly")
        ELSE IF rightPoint = Null THEN Return(s, indexToCoordinate(s.left), "finalLeftOnly")
        ELSE
        LET leftDiff == Abs(leftPoint.time - s.timeKey)
            rightDiff == Abs(rightPoint.time - s.timeKey)
        IN  Return(s, indexToCoordinate(IF leftDiff <= rightDiff THEN s.left ELSE s.right),
                   "finalBoth")

\* The statement block the call is at, applied once.
SearchStep(pts, s) ==
    CASE s.pc = "loop" -> LoopStep(pts, s)
      [] s.pc = "fwd" -> ForwardProbeStep(pts, s)
      [] s.pc = "bwd" -> BackwardProbeStep(pts, s)
      [] s.pc = "final" -> FinalBoundary(pts, s)
      [] OTHER -> s

RECURSIVE RunSearch(_, _)
\* The search run to its return from the state s.
RunSearch(pts, s) ==
    IF s.pc = "done" THEN s ELSE RunSearch(pts, SearchStep(pts, s))

(***************************************************************************)
(* SearchSpec: timeToCoordinateRounded over every table and range.         *)
(***************************************************************************)

FacadeIdle ==
    /\ visibleBarsChanged = <<>>
    /\ logicalRangeChanged = <<>>
    /\ sizeChanged = <<>>
    /\ timeRangeChanged_ = <<>>
    /\ logicalRangeChanged_ = <<>>
    /\ sizeChanged_ = <<>>
    /\ destroyed = FALSE
    /\ visibleTimeRange = Null
    /\ visibleLogicalRange = Null
    /\ targetLogicalRange = Null
    /\ lastCall = [op |-> "none"]
    /\ fault = "none"
    /\ invoked = <<>>
    /\ calls = <<>>

SearchInit ==
    /\ points \in PointTables
    /\ visibleStrictRange \in {r \in StrictRanges : r = Null \/ r.left <= r.right}
    /\ call = IdleCall
    /\ FacadeIdle

CallTimeToCoordinateRounded(timeKey) ==
    /\ call.pc = "idle"
    /\ call' = EnterCall(points, visibleStrictRange, timeKey)
    /\ UNCHANGED <<points, visibleStrictRange>>
    /\ UNCHANGED facadeVars

Loop ==
    /\ call.pc = "loop"
    /\ call' = LoopStep(points, call)
    /\ UNCHANGED <<points, visibleStrictRange>>
    /\ UNCHANGED facadeVars

ForwardProbe ==
    /\ call.pc = "fwd"
    /\ call' = ForwardProbeStep(points, call)
    /\ UNCHANGED <<points, visibleStrictRange>>
    /\ UNCHANGED facadeVars

BackwardProbe ==
    /\ call.pc = "bwd"
    /\ call' = BackwardProbeStep(points, call)
    /\ UNCHANGED <<points, visibleStrictRange>>
    /\ UNCHANGED facadeVars

Final ==
    /\ call.pc = "final"
    /\ call' = FinalBoundary(points, call)
    /\ UNCHANGED <<points, visibleStrictRange>>
    /\ UNCHANGED facadeVars

\* The caller takes the result; the facade is ready for the next call.
Returned ==
    /\ call.pc = "done"
    /\ call' = IdleCall
    /\ UNCHANGED <<points, visibleStrictRange>>
    /\ UNCHANGED facadeVars

SearchNext ==
    \/ \E timeKey \in Keys : CallTimeToCoordinateRounded(timeKey)
    \/ Loop
    \/ ForwardProbe
    \/ BackwardProbe
    \/ Final
    \/ Returned

SearchSpec == SearchInit /\ [][SearchNext]_vars

(***************************************************************************)
(* Delegate (helpers/delegate): a list of registrations, each a callback   *)
(* with the object it was linked to when it subscribed (Null when none).   *)
(***************************************************************************)

DelegateSubscribe(listeners, callback, linkedObject) ==
    Append(listeners, [callback |-> callback, linkedObject |-> linkedObject])

DelegateUnsubscribe(listeners, callback) ==
    SelectSeq(listeners, LAMBDA r : r.callback # callback)

DelegateUnsubscribeAll(listeners, linkedObject) ==
    SelectSeq(listeners, LAMBDA r : r.linkedObject # linkedObject)

DelegateHasListeners(listeners) == Len(listeners) > 0

\* The invocations of one fire, in the order made.
DelegateFire(listeners, args) ==
    [i \in 1..Len(listeners) |-> [handler |-> listeners[i].callback, args |-> args]]

DelegateDestroy == <<>>

(***************************************************************************)
(* Spec: the facade's subscriptions, upstream events, destroy and          *)
(* setVisibleLogicalRange.                                                 *)
(***************************************************************************)

\* The facade itself, as an owner of registrations.
This == [object |-> "TimeScaleApi"]

\* Handlers the chart's user subscribes.
Handlers == {"h1", "h2"}

TimeRanges ==
    {Null,
     [from |-> TimeScalePoint(1), to |-> TimeScalePoint(5)],
     [from |-> TimeScalePoint(5), to |-> TimeScalePoint(9)]}

LogicalRanges == {Null, [left |-> 3, right |-> 10]}

Sizes == {[width |-> 100, height |-> 20], [width |-> 200, height |-> 30]}

\* Arguments of setVisibleLogicalRange: from below, equal to and above to.
RangeArguments == {[from |-> a, to |-> b] : a \in {3, 10}, b \in {3, 10}}

FacadeCallbacks ==
    {"_onVisibleBarsChanged", "_onVisibleLogicalRangeChanged", "_onSizeChanged"}

TotalListeners ==
    Len(timeRangeChanged_) + Len(logicalRangeChanged_) + Len(sizeChanged_)

\* constructor: one subscription on each upstream source, no linked object.
Init ==
    /\ visibleBarsChanged = DelegateSubscribe(<<>>, "_onVisibleBarsChanged", Null)
    /\ logicalRangeChanged = DelegateSubscribe(<<>>, "_onVisibleLogicalRangeChanged", Null)
    /\ sizeChanged = DelegateSubscribe(<<>>, "_onSizeChanged", Null)
    /\ timeRangeChanged_ = <<>>
    /\ logicalRangeChanged_ = <<>>
    /\ sizeChanged_ = <<>>
    /\ destroyed = FALSE
    /\ visibleTimeRange = Null
    /\ visibleLogicalRange = Null
    /\ targetLogicalRange = Null
    /\ lastCall = [op |-> "constructor"]
    /\ fault = "none"
    /\ invoked = <<>>
    /\ calls = <<>>
    /\ points = [i \in Indices |-> Null]
    /\ visibleStrictRange = Null
    /\ call = IdleCall

\* The bookkeeping of an API call that fires nothing.
Called(record, raised) ==
    /\ lastCall' = record
    /\ fault' = raised
    /\ invoked' = <<>>
    /\ calls' = <<>>
    /\ UNCHANGED searchVars

destroy ==
    /\ visibleBarsChanged' = DelegateUnsubscribeAll(visibleBarsChanged, This)
    /\ logicalRangeChanged' = DelegateUnsubscribeAll(logicalRangeChanged, This)
    /\ sizeChanged' = DelegateUnsubscribeAll(sizeChanged, This)
    /\ timeRangeChanged_' = DelegateDestroy
    /\ logicalRangeChanged_' = DelegateDestroy
    /\ sizeChanged_' = DelegateDestroy
    /\ destroyed' = TRUE
    /\ Called([op |-> "destroy"], "none")
    /\ UNCHANGED <<visibleTimeRange, visibleLogicalRange, targetLogicalRange>>

setVisibleLogicalRange_ForwardThenAssert(range) ==
    /\ targetLogicalRange' = range
    /\ Called([op |-> "setVisibleLogicalRange", range |-> range],
              IF range.from <= range.to THEN "none" ELSE "assertion")
    /\ UNCHANGED <<visibleBarsChanged, logicalRangeChanged, sizeChanged,
                   timeRangeChanged_, logicalRangeChanged_, sizeChanged_,
                   destroyed, visibleTimeRange, visibleLogicalRange>>

\* assert(range.from <= range.to), then this._model.setTargetLogicalRange(range)
setVisibleLogicalRange(range) ==
    /\ IF range.from <= range.to
       THEN /\ targetLogicalRange' = range
            /\ Called([op |-> "setVisibleLogicalRange", range |-> range], "none")
       ELSE /\ targetLogicalRange' = targetLogicalRange
            /\ Called([op |-> "setVisibleLogicalRange", range |-> range], "assertion")
    /\ UNCHANGED <<visibleBarsChanged, logicalRangeChanged, sizeChanged,
                   timeRangeChanged_, logicalRangeChanged_, sizeChanged_,
                   destroyed, visibleTimeRange, visibleLogicalRange>>

\* A subscribe call on one of the facade's delegates: the new list and the
\* error raised (a destroyed delegate refuses the subscription).
SubscribeOn(listeners, handler) ==
    IF destroyed
    THEN [listeners |-> listeners, raised |-> "UseAfterDestroy"]
    ELSE [listeners |-> DelegateSubscribe(listeners, handler, Null), raised |-> "none"]

subscribeVisibleTimeRangeChange(handler) ==
    /\ TotalListeners < MaxListeners
    /\ timeRangeChanged_' = SubscribeOn(timeRangeChanged_, handler).listeners
    /\ Called([op |-> "subscribeVisibleTimeRangeChange", handler |-> handler],
              SubscribeOn(timeRangeChanged_, handler).raised)
    /\ UNCHANGED <<visibleBarsChanged, logicalRangeChanged, sizeChanged,
                   logicalRangeChanged_, sizeChanged_, destroyed,
                   visibleTimeRange, visibleLogicalRange, targetLogicalRange>>

unsubscribeVisibleTimeRangeChange(handler) ==
    /\ timeRangeChanged_' = DelegateUnsubscribe(timeRangeChanged_, handler)
    /\ Called([op |-> "unsubscribeVisibleTimeRangeChange", handler |-> handler], "none")
    /\ UNCHANGED <<visibleBarsChanged, logicalRangeChanged, sizeChanged,
                   logicalRangeChanged_, sizeChanged_, destroyed,
                   visibleTimeRange, visibleLogicalRange, targetLogicalRange>>

subscribeVisibleLogicalRangeChange(handler) ==
    /\ TotalListeners < MaxListeners
    /\ logicalRangeChanged_' = SubscribeOn(logicalRangeChanged_, handler).listeners
    /\ Called([op |-> "subscribeVisibleLogicalRangeChange", handler |-> handler],
              SubscribeOn(logicalRangeChanged_, handler).raised)
    /\ UNCHANGED <<visibleBarsChanged, logicalRangeChanged, sizeChanged,
                   timeRangeChanged_, sizeChanged_, destroyed,
                   visibleTimeRange, visibleLogicalRange, targetLogicalRange>>

unsubscribeVisibleLogicalRangeChange(handler) ==
    /\ logicalRangeChanged_' = DelegateUnsubscribe(logicalRangeChanged_, handler)
    /\ Called([op |-> "unsubscribeVisibleLogicalRangeChange", handler |-> handler], "none")
    /\ UNCHANGED <<visibleBarsChanged, logicalRangeChanged, sizeChanged,
                   timeRangeChanged_, sizeChanged_, destroyed,
                   visibleTimeRange, visibleLogicalRange, targetLogicalRange>>

subscribeSizeChange(handler) ==
    /\ TotalListeners < MaxListeners
    /\ sizeChanged_' = SubscribeOn(sizeChanged_, handler).listeners
    /\ Called([op |-> "subscribeSizeChange", handler |-> handler],
              SubscribeOn(sizeChanged_, handler).raised)
    /\ UNCHANGED <<visibleBarsChanged, logicalRangeChanged, sizeChanged,
                   timeRangeChanged_, logicalRangeChanged_, destroyed,
                   visibleTimeRange, visibleLogicalRange, targetLogicalRange>>

unsubscribeSizeChange(handler) ==
    /\ sizeChanged_' = DelegateUnsubscribe(sizeChanged_, handler)
    /\ Called([op |-> "unsubscribeSizeChange", handler |-> handler], "none")
    /\ UNCHANGED <<visibleBarsChanged, logicalRangeChanged, sizeChanged,
                   timeRangeChanged_, logicalRangeChanged_, destroyed,
                   visibleTimeRange, visibleLogicalRange, targetLogicalRange>>

\* getVisibleRange(), on the time scale's visible time range.
getVisibleRange(timeRange) ==
    IF timeRange = Null THEN Null
    ELSE [from |-> timeRange.from.originalTime, to |-> timeRange.to.originalTime]

\* getVisibleLogicalRange(), on the time scale's visible logical range.
getVisibleLogicalRange(logicalRange) ==
    IF logicalRange = Null THEN Null
    ELSE [from |-> logicalRange.left, to |-> logicalRange.right]

\* _onVisibleBarsChanged(): the invocations it makes.
onVisibleBarsChanged(listeners, timeRange) ==
    IF DelegateHasListeners(listeners)
    THEN DelegateFire(listeners, <<getVisibleRange(timeRange)>>)
    ELSE <<>>

\* _onVisibleLogicalRangeChanged(): the invocations it makes.
onVisibleLogicalRangeChanged(listeners, logicalRange) ==
    IF DelegateHasListeners(listeners)
    THEN DelegateFire(listeners, <<getVisibleLogicalRange(logicalRange)>>)
    ELSE <<>>

onSizeChanged_HeightFirst(listeners, size) ==
    DelegateFire(listeners, <<size.height, size.width>>)

\* _onSizeChanged(size): the invocations it makes.
onSizeChanged(listeners, size) ==
    DelegateFire(listeners, <<size.width, size.height>>)

RECURSIVE Flatten(_)
Flatten(seqs) ==
    IF seqs = <<>> THEN <<>> ELSE Head(seqs) \o Flatten(Tail(seqs))

\* What the facade callback named by a registration does when invoked.
Invoke(callback, argument) ==
    CASE callback = "_onVisibleBarsChanged" ->
            onVisibleBarsChanged(timeRangeChanged_, argument)
      [] callback = "_onVisibleLogicalRangeChanged" ->
            onVisibleLogicalRangeChanged(logicalRangeChanged_, argument)
      [] callback = "_onSizeChanged" ->
            onSizeChanged(sizeChanged_, argument)
      [] OTHER -> <<>>

\* An upstream source fires: every registration it holds is invoked in order.
UpstreamFire(upstream, argument, record) ==
    /\ invoked' = [i \in 1..Len(upstream) |-> upstream[i].callback]
    /\ calls' = Flatten([i \in 1..Len(upstream) |-> Invoke(upstream[i].callback, argument)])
    /\ lastCall' = record
    /\ fault' = "none"
    /\ UNCHANGED searchVars
    /\ UNCHANGED <<visibleBarsChanged, logicalRangeChanged, sizeChanged,
                   timeRangeChanged_, logicalRangeChanged_, sizeChanged_,
                   destroyed, targetLogicalRange>>

\* The time scale's visible bars change and visibleBarsChanged() fires.
VisibleBarsChangedFires(timeRange) ==
    /\ visibleTimeRange' = timeRange
    /\ UNCHANGED visibleLogicalRange
    /\ UpstreamFire(visibleBarsChanged, timeRange, [op |-> "visibleBarsChanged"])

\* The time scale's logical range changes and logicalRangeChanged() fires.
LogicalRangeChangedFires(logicalRange) ==
    /\ visibleLogicalRange' = logicalRange
    /\ UNCHANGED visibleTimeRange
    /\ UpstreamFire(logicalRangeChanged, logicalRange, [op |-> "logicalRangeChanged"])

\* The time axis widget is resized and sizeChanged() fires with the size.
SizeChangedFires(size) ==
    /\ UNCHANGED <<visibleTimeRange, visibleLogicalRange>>
    /\ UpstreamFire(sizeChanged, size, [op |-> "sizeChanged", size |-> size])

Next ==
    \/ destroy
    \/ \E range \in RangeArguments : setVisibleLogicalRange(range)
    \/ \E handler \in Handlers : subscribeVisibleTimeRangeChange(handler)
    \/ \E handler \in Handlers : unsubscribeVisibleTimeRangeChange(handler)
    \/ \E handler \in Handlers : subscribeVisibleLogicalRangeChange(handler)
    \/ \E handler \in Handlers : unsubscribeVisibleLogicalRangeChange(handler)
    \/ \E handler \in Handlers : subscribeSizeChange(handler)
    \/ \E handler \in Handlers : unsubscribeSizeChange(handler)
    \/ \E timeRange \in TimeRanges : VisibleBarsChangedFires(timeRange)
    \/ \E logicalRange \in LogicalRanges : LogicalRangeChangedFires(logicalRange)
    \/ \E size \in Sizes : SizeChangedFires(size)

Spec == Init /\ [][Next]_vars

(***************************************************************************)
(* Claims about timeToCoordinateRounded (SearchSpec).                      *)
(***************************************************************************)

InBounds(i) ==
    /\ visibleStrictRange # Null
    /\ visibleStrictRange.left <= i
    /\ i <= visibleStrictRange.right

Present(i) == indexToTimeScalePoint(points, i) # Null

Distance(i) == Abs(points[i].time - call.timeKey)

\* The call has returned from the binary search (not from the exact lookup,
\* not for want of a visible strict range).
SearchReturned ==
    /\ call.pc = "done"
    /\ call.site \notin {"exact", "norange"}

NoDuplicates(seq) ==
    \A a, b \in DOMAIN seq : a # b => seq[a] # seq[b]

\* C1: with every index of the bounds present, the search returns the
\* coordinate of an index in bounds whose key is nearest to the target key.
C1_NearestInBounds ==
    (SearchReturned /\ \A i \in Indices : InBounds(i) => Present(i))
        => \E i \in Indices :
              /\ InBounds(i)
              /\ call.result = indexToCoordinate(i)
              /\ \A j \in Indices : InBounds(j) => Distance(i) <= Distance(j)

\* C2: timeToCoordinateRounded returns null only when no index of the
\* visible strict range has a present point.
C2_NullOnlyWhenBoundsEmpty ==
    (call.pc = "done" /\ call.result = Null)
        => ~ \E i \in Indices : InBounds(i) /\ Present(i)

\* The two candidates the returning comparison weighed are equally far from
\* the target key.
TieBetween(a, b) ==
    /\ Present(a) /\ Present(b)
    /\ Distance(a) = Distance(b)

\* C3 as stated: at both comparisons a tie returns the lower index.
C3_TieReturnsLower ==
    /\ (call.pc = "done" /\ call.site = "shortcutRight" /\ TieBetween(call.mid, call.right))
          => call.result = indexToCoordinate(Min(call.mid, call.right))
    /\ (call.pc = "done" /\ call.site = "shortcutLeft" /\ TieBetween(call.left, call.mid))
          => call.result = indexToCoordinate(Min(call.left, call.mid))
    /\ (call.pc = "done" /\ call.site = "finalBoth" /\ TieBetween(call.left, call.right))
          => call.result = indexToCoordinate(Min(call.left, call.right))

\* C3 amended: a tie in the two-candidate shortcut returns the lower index
\* (mid, which is left); a tie in the comparison after the loop returns
\* `left`, which is then right + 1, the higher of the two indices.
C3_TieReturnsLeftVariable ==
    /\ (call.pc = "done" /\ call.site = "shortcutRight" /\ TieBetween(call.mid, call.right))
          => /\ call.mid = call.left
             /\ call.mid < call.right
             /\ call.result = indexToCoordinate(call.mid)
    /\ (call.pc = "done" /\ call.site = "shortcutLeft" /\ TieBetween(call.left, call.mid))
          => /\ call.mid = call.left
             /\ call.result = indexToCoordinate(call.left)
    /\ (call.pc = "done" /\ call.site = "finalBoth" /\ TieBetween(call.left, call.right))
          => /\ call.left = call.right + 1
             /\ call.result = indexToCoordinate(Max(call.left, call.right))

C3_Witness ==
    /\ call.pc = "done"
    /\ call.site = "finalBoth"
    /\ TieBetween(call.left, call.right)
    /\ call.result = indexToCoordinate(call.right + 1)

\* Points at indices 0, 1, 2 with keys 1, 5, 9, bounds [0, 2], target key 7.
C4_Case ==
    /\ Present(0) /\ points[0].time = 1
    /\ Present(1) /\ points[1].time = 5
    /\ Present(2) /\ points[2].time = 9
    /\ visibleStrictRange = [left |-> 0, right |-> 2]
    /\ call.timeKey = 7

\* C4: on keys 1, 5, 9 at indices 0, 1, 2, bounds [0, 2] and target key 7
\* the search returns index 2, not index 1.
C4_ReturnsIndexTwo ==
    (call.pc = "done" /\ C4_Case) => call.result = indexToCoordinate(2)

C4_Witness ==
    /\ call.pc = "done"
    /\ C4_Case
    /\ call.site = "finalBoth"
    /\ call.result = indexToCoordinate(2)

\* Points {0: key 1, 2: key 10}, index 1 absent, bounds [0, 2], target key 1.
C5_Case ==
    /\ Present(0) /\ points[0].time = 1
    /\ ~Present(1)
    /\ Present(2) /\ points[2].time = 10
    /\ visibleStrictRange = [left |-> 0, right |-> 2]
    /\ call.timeKey = 1

\* The binary search alone, entered on the call's key and the bounds.
SearchAlone == RunSearch(points, EnterSearch(visibleStrictRange, call.timeKey))

\* C5 as stated: when a present point in bounds has the target key, the
\* search run on that key and those bounds returns that point's index.
C5_SearchReturnsExact ==
    \A i \in Indices :
        (call.pc = "done" /\ InBounds(i) /\ Present(i) /\ points[i].time = call.timeKey)
            => SearchAlone.result = indexToCoordinate(i)

\* C5 amended: when a present point in bounds has the target key,
\* timeToCoordinateRounded returns that point's coordinate, whatever the
\* gaps, from the exact lookup that precedes the search; the search alone,
\* run on {0: key 1, 2: key 10}, target key 1, bounds [0, 2], returns
\* index 2.
C5_MethodReturnsExact ==
    /\ \A i \in Indices :
          (call.pc = "done" /\ InBounds(i) /\ Present(i) /\ points[i].time = call.timeKey)
              => /\ call.result = indexToCoordinate(i)
                 /\ call.site = "exact"
    /\ (call.pc = "done" /\ C5_Case)
          => /\ call.result = indexToCoordinate(0)
             /\ SearchAlone.result = indexToCoordinate(2)

C5_Witness ==
    /\ call.pc = "done"
    /\ C5_Case
    /\ call.result = indexToCoordinate(0)

\* C9: an index the search returns lies within the visible strict range.
C9_ResultInBounds ==
    (SearchReturned /\ call.result # Null)
        => \E i \in Indices : InBounds(i) /\ call.result = indexToCoordinate(i)

\* A variant of the search: it falls with every step until the return.
Rank(s) ==
    CASE s.pc = "loop" -> 3 * (Max(s.right - s.left + 1, 0) + 1)
      [] s.pc = "fwd" -> Max(s.right - s.validIndex + 1, 0) + (s.mid - s.left + 1) + 2
      [] s.pc = "bwd" -> Max(s.validIndex - s.left + 1, 0) + 1
      [] s.pc = "final" -> 1
      [] OTHER -> 0

\* C10: the search terminates: every step lowers a non-negative variant,
\* a pass of the outer loop that does not return shrinks right - left, and
\* a gap probe reads each index at most once and then returns.
C10_Terminates ==
    [][call.pc \in {"loop", "fwd", "bwd", "final"} =>
          /\ Rank(call') >= 0
          /\ Rank(call') < Rank(call)
          /\ (call.pc = "loop" /\ call'.pc = "loop")
                => call'.right - call'.left < call.right - call.left
          /\ NoDuplicates(call'.probed)
          /\ call.pc \in {"fwd", "bwd"} => call'.pc \in {"fwd", "bwd", "done"}
          /\ (call.pc = "bwd" /\ call'.pc = "bwd") \/ call.pc = "final"
                => call'.pc \in {"bwd", "done"}]_vars

C10_Witness ==
    /\ call.pc = "done"
    /\ call.site = "probeNone"
    /\ call.passes >= 1
    /\ Len(call.probed) >= 2

(***************************************************************************)
(* Claims about the facade's subscriptions and ranges (Spec).              *)
(***************************************************************************)

\* The state of the program, without the bookkeeping of the last call.
programState ==
    <<points, visibleStrictRange,
      visibleBarsChanged, logicalRangeChanged, sizeChanged,
      timeRangeChanged_, logicalRangeChanged_, sizeChanged_,
      destroyed, visibleTimeRange, visibleLogicalRange, targetLogicalRange>>

HoldsFacadeCallback(upstream) ==
    \E i \in 1..Len(upstream) : upstream[i].callback \in FacadeCallbacks

\* C6: after destroy() no upstream source retains a registration the
\* constructor attached, and an upstream fire invokes no callback of the
\* destroyed facade.
C6_DestroyDetaches ==
    destroyed =>
        /\ ~HoldsFacadeCallback(visibleBarsChanged)
        /\ ~HoldsFacadeCallback(logicalRangeChanged)
        /\ ~HoldsFacadeCallback(sizeChanged)
        /\ \A i \in 1..Len(invoked) : invoked[i] \notin FacadeCallbacks

\* C7: setVisibleLogicalRange(range) with from > to raises the assertion
\* and leaves the model's target range and the rest of the state as they
\* were; with from <= to it raises nothing and forwards exactly that range.
C7_RangeAssertion ==
    [][\A range \in RangeArguments :
          lastCall' = [op |-> "setVisibleLogicalRange", range |-> range] =>
              IF range.from > range.to
              THEN fault' = "assertion" /\ UNCHANGED programState
              ELSE fault' = "none" /\ targetLogicalRange' = range]_vars

C7_Witness ==
    /\ lastCall = [op |-> "setVisibleLogicalRange", range |-> [from |-> 10, to |-> 3]]
    /\ fault = "assertion"
    /\ targetLogicalRange = [from |-> 3, to |-> 3]

\* The invocations an event owes to the registrations of one delegate.
OncePerRegistration(listeners, args) ==
    [i \in 1..Len(listeners) |-> [handler |-> listeners[i].callback, args |-> args]]

C8_EventInvokesRegistered ==
    ~destroyed =>
        /\ lastCall.op = "visibleBarsChanged"
              => calls = OncePerRegistration(timeRangeChanged_,
                            <<IF visibleTimeRange = Null THEN Null
                              ELSE [from |-> visibleTimeRange.from.originalTime,
                                    to |-> visibleTimeRange.to.originalTime]>>)
        /\ lastCall.op = "logicalRangeChanged"
              => calls = OncePerRegistration(logicalRangeChanged_,
                            <<IF visibleLogicalRange = Null THEN Null
                              ELSE [from |-> visibleLogicalRange.left,
                                    to |-> visibleLogicalRange.right]>>)
        /\ lastCall.op = "sizeChanged"
              => calls = OncePerRegistration(sizeChanged_,
                            <<lastCall.size.width, lastCall.size.height>>)

Registered(handler) == [callback |-> handler, linkedObject |-> Null]

Without(listeners, handler) == SelectSeq(listeners, LAMBDA r : r.callback # handler)

C8_SubscriptionsKeepOrder ==
    \A handler \in Handlers :
        ~destroyed =>
            /\ lastCall' = [op |-> "subscribeVisibleTimeRangeChange", handler |-> handler]
                  => /\ timeRangeChanged_' = Append(timeRangeChanged_, Registered(handler))
                     /\ UNCHANGED <<logicalRangeChanged_, sizeChanged_>>
            /\ lastCall' = [op |-> "unsubscribeVisibleTimeRangeChange", handler |-> handler]
                  => /\ timeRangeChanged_' = Without(timeRangeChanged_, handler)
                     /\ UNCHANGED <<logicalRangeChanged_, sizeChanged_>>
            /\ lastCall' = [op |-> "subscribeVisibleLogicalRangeChange", handler |-> handler]
                  => /\ logicalRangeChanged_' = Append(logicalRangeChanged_, Registered(handler))
                     /\ UNCHANGED <<timeRangeChanged_, sizeChanged_>>
            /\ lastCall' = [op |-> "unsubscribeVisibleLogicalRangeChange", handler |-> handler]
                  => /\ logicalRangeChanged_' = Without(logicalRangeChanged_, handler)
                     /\ UNCHANGED <<timeRangeChanged_, sizeChanged_>>
            /\ lastCall' = [op |-> "subscribeSizeChange", handler |-> handler]
                  => /\ sizeChanged_' = Append(sizeChanged_, Registered(handler))
                     /\ UNCHANGED <<timeRangeChanged_, logicalRangeChanged_>>
            /\ lastCall' = [op |-> "unsubscribeSizeChange", handler |-> handler]
                  => /\ sizeChanged_' = Without(sizeChanged_, handler)
                     /\ UNCHANGED <<timeRangeChanged_, logicalRangeChanged_>>

\* C8: before destroy, every subscribe appends to and every unsubscribe
\* removes from the list of its own kind of event, and each upstream event
\* invokes exactly the handlers registered for its kind, once per
\* registration, in subscription order, all with the event's payload.
C8_FanOut ==
    /\ []C8_EventInvokesRegistered
    /\ [][C8_SubscriptionsKeepOrder]_vars

C8_Witness ==
    /\ ~destroyed
    /\ lastCall.op = "sizeChanged"
    /\ Len(sizeChanged_) = 2
    /\ sizeChanged_[1].callback # sizeChanged_[2].callback
    /\ Len(calls) = 2
    /\ calls[1] = [handler |-> sizeChanged_[1].callback, args |-> <<200, 30>>]
    /\ calls[2] = [handler |-> sizeChanged_[2].callback, args |-> <<200, 30>>]
====
